---- MODULE Spec2Model ----
(***************************************************************************)
(* Two-watched-literal propagation core of yasuosat (src/src/lib.rs).      *)
(*                                                                         *)
(* The state is the Solver struct, the frame of a running propagate_once   *)
(* call and the arguments handed to Solver::new.  Addresses inside the     *)
(* boxed literal buffer are offsets from its base address; an Option<bool> *)
(* is the empty sequence (None) or a one-element sequence (Some(b)).       *)
(***************************************************************************)
EXTENDS Integers, Sequences, FiniteSets, TLC

VARIABLES
    arg_n,          \* Solver::new: argument n
    arg_clauses,    \* Solver::new: argument clauses
    n,              \* Solver.n
    clause_body,    \* Solver.clause_body: address -> literal
    clauses,        \* Solver.clauses: sequence of ClausePtr
    assign,         \* Solver.assign: index -> Option<bool>
    level,          \* Solver.level
    suggest,        \* Solver.suggest
    levels,         \* Solver.levels
    watchers,       \* Solver.watchers: slot -> sequence of ClausePtr
    pc,             \* "start", "none", "idle", "loop", "panicked"
    lit,            \* propagate_once: argument lit
    i,              \* propagate_once: local i
    later_assigns,  \* propagate_once: local later_assigns
    result,         \* what the last call returned, until the driver acts again
    place,          \* the place the Solver value lies in: 0 where it was built
    other_body,     \* the literal buffer of the Solver in the other place
    queue,          \* driver: the literals it assigned and has not propagated yet
    at_entry,       \* history: slot(lit)'s watcher list when the call began
    seen            \* history: the clauses the call has taken so far

solver == <<n, clause_body, clauses, assign, level, suggest, levels, watchers>>
frame == <<lit, i, later_assigns>>
args == <<arg_n, arg_clauses>>
aux == <<place, other_body, queue>>
hist == <<at_entry, seen>>
vars == <<arg_n, arg_clauses, n, clause_body, clauses, assign, level, suggest,
          levels, watchers, pc, lit, i, later_assigns, result, place, other_body,
          queue, at_entry, seen>>

(***************************************************************************)
(* Bounds of the model.                                                    *)
(***************************************************************************)
\* Solver::new is tried with n = 0, n = RawN and literals in -(RawN+1)..(RawN+1)
RawN == 2
\* ... on clauses of at most RawLen literals
RawLen == 3
\* ... and lists of at most RawClauses clauses
RawClauses == 2
\* ... of at most RawBody literals together
RawBody == 3
\* the decision level the driver reaches at most
MaxLevel == 1

(***************************************************************************)
(* Option<bool>                                                            *)
(***************************************************************************)
None == <<>>
Some(b) == <<b>>
OptBool == {None, Some(TRUE), Some(FALSE)}

(***************************************************************************)
(* LitFunctions                                                            *)
(***************************************************************************)
abs(x) == IF x < 0 THEN -x ELSE x
as_bool(l) == l > 0
var(l) == abs(l)
get_loc_var(l, nn) == nn + abs(l)
get_loc(l, nn) == nn + l
negative(l) == -l

(***************************************************************************)
(* Helpers on sequences.                                                   *)
(***************************************************************************)
Range(s) == {s[k] : k \in 1..Len(s)}

RECURSIVE SumLen(_)
SumLen(cs) == IF cs = <<>> THEN 0 ELSE Len(Head(cs)) + SumLen(Tail(cs))

\* Sequences over S of length lo..hi
SeqsOf(S, lo, hi) == UNION {[1..k -> S] : k \in lo..hi}

(***************************************************************************)
(* Solver::new: the validation of the checked path.                        *)
(***************************************************************************)
\* insert x into the ascending sequence s
RECURSIVE Insert(_, _)
Insert(x, s) ==
    IF s = <<>> THEN <<x>>
    ELSE IF x <= Head(s) THEN <<x>> \o s
    ELSE <<Head(s)>> \o Insert(x, Tail(s))

\* v.sort_unstable()
RECURSIVE sort_unstable(_)
sort_unstable(s) == IF s = <<>> THEN <<>> ELSE Insert(Head(s), sort_unstable(Tail(s)))

\* v.windows(2).all(|s| s[0] != s[1])
windows_all_differ(s) == \A k \in 1..(Len(s) - 1) : s[k] # s[k + 1]

\* the closure of Solver::new applied to one clause, without the duplicate test
clause_ok_nodup(nn, clause) ==
    /\ Len(clause) >= 2
    /\ \A k \in 1..Len(clause) : clause[k] # 0 /\ abs(clause[k]) <= nn

\* the closure of Solver::new applied to one clause
clause_ok(nn, clause) ==
    /\ Len(clause) >= 2
    /\ \A k \in 1..Len(clause) : clause[k] # 0 /\ abs(clause[k]) <= nn
    /\ windows_all_differ(sort_unstable([k \in 1..Len(clause) |-> abs(clause[k])]))

\* the condition of the if in Solver::new
new_check(nn, cs) == \A k \in 1..Len(cs) : clause_ok(nn, cs[k])

(***************************************************************************)
(* Solver::new_unchecked                                                   *)
(***************************************************************************)
\* v_clauses after the first loop: the clauses' literals back to back
RECURSIVE v_clauses(_)
v_clauses(cs) == IF cs = <<>> THEN <<>> ELSE Head(cs) \o v_clauses(Tail(cs))

\* v_indexes: the start of every clause in v_clauses, then v_clauses.len()
v_indexes(cs) ==
    [k \in 1..(Len(cs) + 1) |-> SumLen(SubSeq(cs, 1, k - 1))]

\* the boxed slice, addressed from base_addr (address 0)
boxed(flat) == [a \in 0..(Len(flat) - 1) |-> flat[a + 1]]

\* v_indexes.windows(2).map(|win| (base_addr.add(win[0]), base_addr.add(win[1] - 1)))
clause_ptrs(idx) == [k \in 1..(Len(idx) - 1) |-> <<idx[k], idx[k + 1] - 1>>]

\* watchers[slot].push(c)
push_watcher(w, slot, c) == [w EXCEPT ![slot] = Append(@, c)]

\* the slot a clause is registered in for the literal at address p: the literal itself
watch_slot_plain(body, p, nn) == get_loc(body[p], nn)

\* the slot a clause is registered in for the literal at address p
watch_slot(body, p, nn) == get_loc(negative(body[p]), nn)

\* the loop that registers every clause in two watcher lists
RECURSIVE register(_, _, _, _)
register(w, cls, body, nn) ==
    IF cls = <<>> THEN w
    ELSE LET c == Head(cls)
             w1 == push_watcher(w, watch_slot(body, c[1], nn), c)
             w2 == push_watcher(w1, watch_slot(body, c[2], nn), c)
         IN  register(w2, Tail(cls), body, nn)

\* the Solver that new_unchecked returns
new_unchecked(nn, cs) ==
    LET body == boxed(v_clauses(cs))
        cls == clause_ptrs(v_indexes(cs))
    IN  [n |-> nn,
         clause_body |-> body,
         clauses |-> cls,
         level |-> 0,
         assign |-> [v \in 0..(nn - 1) |-> None],
         suggest |-> [v \in 0..(nn - 1) |-> FALSE],
         levels |-> [v \in 0..(nn - 1) |-> 0],
         watchers |-> register([s \in 0..(2 * nn) |-> <<>>], cls, body, nn)]

\* the fields of the struct are those of the record s
Built(s) ==
    /\ n' = s.n
    /\ clause_body' = s.clause_body
    /\ clauses' = s.clauses
    /\ level' = s.level
    /\ assign' = s.assign
    /\ suggest' = s.suggest
    /\ levels' = s.levels
    /\ watchers' = s.watchers

\* no Solver exists: the fields before Solver::new has run
NoSolver ==
    [n |-> 0, clause_body |-> <<>>, clauses |-> <<>>, level |-> 0, assign |-> <<>>,
     suggest |-> <<>>, levels |-> <<>>, watchers |-> <<>>]

NoResult == [kind |-> "none", lit |-> 0, assigns |-> <<>>, clause |-> <<>>]

(***************************************************************************)
(* The accepted inputs a Solver is built from in Spec.  Renaming the       *)
(* variables 1..n-1 and flipping the polarity of a variable everywhere are *)
(* symmetries of the solver, so one input of each class is drawn: read     *)
(* left to right, every variable occurs positive first, and the variables  *)
(* other than n occur first in the order 1, 2, ...                         *)
(***************************************************************************)
\* the number of variables of the solver
NumVars == 4
\* the literals of one clause, at most
MaxLen == 4
\* the clauses of the input, at most
MaxClauses == 2
\* the literals of all clauses together, at most
MaxBody == 4
\* the number of variables of the solver in SpecFrame
FrameVars == 3
\* the literals of all clauses together in SpecFrame, at most
FrameBody == 3

Lits(nn) == ((0 - nn)..nn) \ {0}

\* the variables of flat[1..k], in the order of their first occurrence
RECURSIVE FirstVars(_, _)
FirstVars(flat, k) ==
    IF k = 0 THEN <<>>
    ELSE LET before == FirstVars(flat, k - 1)
         IN  IF var(flat[k]) \in Range(before) THEN before
             ELSE Append(before, var(flat[k]))

Canonical(flat, nn) ==
    LET first == FirstVars(flat, Len(flat))
        inner == SelectSeq(first, LAMBDA v : v # nn)
    IN  /\ \A k \in 1..Len(flat) :
              (\A j \in 1..(k - 1) : var(flat[j]) # var(flat[k])) => flat[k] > 0
        /\ \A k \in 1..Len(inner) : inner[k] = k

\* the sum of the numbers of a sequence
RECURSIVE Sum(_)
Sum(sh) == IF sh = <<>> THEN 0 ELSE Head(sh) + Sum(Tail(sh))

\* the clause lengths of an input whose clauses hold total literals together
Shapes(total) == {sh \in SeqsOf(2..MaxLen, 0, MaxClauses) : Sum(sh) = total}

\* flat cut into clauses of the lengths sh
Split(flat, sh) ==
    [k \in 1..Len(sh) |->
        SubSeq(flat, Sum(SubSeq(sh, 1, k - 1)) + 1, Sum(SubSeq(sh, 1, k)))]

CanonicalFlats(nn, total) == {f \in [1..total -> Lits(nn)] : Canonical(f, nn)}

\* the accepted inputs of nn variables and at most body literals, one of each class
InputsOf(nn, body) ==
    UNION {{<<nn, cs>> :
               cs \in {x \in {Split(f, sh) : f \in CanonicalFlats(nn, total),
                                            sh \in Shapes(total)} :
                          new_check(nn, x)}} :
           total \in 0..body}

Inputs == InputsOf(NumVars, MaxBody)

FrameInputs == InputsOf(FrameVars, FrameBody)

\* one Solver, where it was built, and a driver that has assigned nothing
InitAux ==
    /\ place = 0
    /\ other_body = <<>>
    /\ queue = <<>>
    /\ at_entry = <<>>
    /\ seen = <<>>

\* the Solver that Solver::new(n, clauses) returns on an input of the set, idle
SolverOn(inputs) ==
    /\ \E inp \in inputs :
          /\ arg_n = inp[1]
          /\ arg_clauses = inp[2]
          /\ LET s == new_unchecked(inp[1], inp[2])
             IN  /\ n = s.n
                 /\ clause_body = s.clause_body
                 /\ clauses = s.clauses
                 /\ level = s.level
                 /\ assign = s.assign
                 /\ suggest = s.suggest
                 /\ levels = s.levels
                 /\ watchers = s.watchers
    /\ pc = "idle"
    /\ lit = 0
    /\ i = 0
    /\ later_assigns = <<>>
    /\ result = NoResult

\* the state after Solver::new(n, clauses) on an input of the set
InitOn(inputs) == SolverOn(inputs) /\ InitAux

Init == InitOn(Inputs)

InitFrame == InitOn(FrameInputs)

(***************************************************************************)
(* Solver::new as a step: the arguments are drawn in InitNew, from the raw  *)
(* inputs and from the accepted inputs of Spec.                            *)
(***************************************************************************)
RawLits == (0 - (RawN + 1))..(RawN + 1)

\* the clause lengths of a raw input whose clauses hold total literals together
RawShapes(total) == {sh \in SeqsOf(0..RawLen, 0, RawClauses) : Sum(sh) = total}

\* a raw input: n is 0 or RawN, and the clauses are any split of any literals
RawInput(nn, cs) ==
    /\ nn \in {0, RawN}
    /\ \E total \in 0..RawBody : \E sh \in RawShapes(total) :
          \E f \in [1..total -> RawLits] : cs = Split(f, sh)

InitNew ==
    /\ \/ \E inp \in Inputs : arg_n = inp[1] /\ arg_clauses = inp[2]
       \/ RawInput(arg_n, arg_clauses)
    /\ n = NoSolver.n
    /\ clause_body = NoSolver.clause_body
    /\ clauses = NoSolver.clauses
    /\ level = NoSolver.level
    /\ assign = NoSolver.assign
    /\ suggest = NoSolver.suggest
    /\ levels = NoSolver.levels
    /\ watchers = NoSolver.watchers
    /\ pc = "start"
    /\ lit = 0
    /\ i = 0
    /\ later_assigns = <<>>
    /\ result = NoResult
    /\ InitAux

\* Solver::new returns Some(new_unchecked(n, clauses))
NewSome ==
    /\ pc = "start"
    /\ new_check(arg_n, arg_clauses)
    /\ Built(new_unchecked(arg_n, arg_clauses))
    /\ pc' = "idle"
    /\ UNCHANGED <<args, frame, result, aux, hist>>

\* Solver::new returns None
NewNone ==
    /\ pc = "start"
    /\ ~new_check(arg_n, arg_clauses)
    /\ pc' = "none"
    /\ UNCHANGED <<args, solver, frame, result, aux, hist>>

NextNew == NewSome \/ NewNone

SpecNew == InitNew /\ [][NextNew]_vars

(***************************************************************************)
(* The truth value of a literal under the assignment: variable v is        *)
(* assigned when the cell assign[v] exists and holds Some(b).              *)
(***************************************************************************)
VarAssign(v) == IF v \in DOMAIN assign THEN assign[v] ELSE None
Value(l) ==
    IF VarAssign(var(l)) = None THEN None ELSE Some(VarAssign(var(l))[1] = as_bool(l))

(***************************************************************************)
(* The external driver: it writes assign, level, levels and suggest        *)
(* between calls, and calls propagate_once on a literal it assigned true.  *)
(* It writes the cell assign[v] of variable v: variable n has none, and    *)
(* cell 0 is no variable's.  A variable that occurs in no clause is left   *)
(* alone: its watcher lists are empty and stay so.                         *)
(***************************************************************************)
\* the variables that occur in the clauses and have a cell in assign
Decidable == {var(clause_body[a]) : a \in DOMAIN clause_body} \cap (DOMAIN assign \ {0})

DriverAssign(v, b) ==
    /\ pc = "idle"
    /\ v \in Decidable
    /\ assign[v] # b
    /\ assign' = [assign EXCEPT ![v] = b]
    /\ levels' = [levels EXCEPT ![v] = IF b = None THEN @ ELSE level]
    /\ result' = NoResult
    /\ UNCHANGED <<args, n, clause_body, clauses, level, suggest, watchers, pc, frame>>
    /\ UNCHANGED <<aux, hist>>

DriverLevel(k) ==
    /\ pc = "idle"
    /\ k # level
    /\ level' = k
    /\ result' = NoResult
    /\ UNCHANGED <<args, n, clause_body, clauses, assign, suggest, levels, watchers, pc, frame>>
    /\ UNCHANGED <<aux, hist>>

DriverSuggest(v, b) ==
    /\ pc = "idle"
    /\ v \in Decidable
    /\ suggest[v] # b
    /\ suggest' = [suggest EXCEPT ![v] = b]
    /\ result' = NoResult
    /\ UNCHANGED <<args, n, clause_body, clauses, assign, level, levels, watchers, pc, frame>>
    /\ UNCHANGED <<aux, hist>>

(***************************************************************************)
(* Solver::eval_unchecked.  assign has n cells, 0..n-1, and the cell read  *)
(* is assign[lit.var()]: for a literal of variable n the read is past the  *)
(* end of the vector, and oob is what the memory there holds.              *)
(***************************************************************************)
assign_get_unchecked(idx, oob) == IF idx \in DOMAIN assign THEN assign[idx] ELSE oob

eval_unchecked(l, oob) ==
    LET cell == assign_get_unchecked(var(l), oob)
    IN  IF cell = None THEN None ELSE Some(cell[1] = as_bool(l))

(***************************************************************************)
(* Solver::propagate_once, one iteration of its loop per step.             *)
(***************************************************************************)
\* ptr_swap, had it only copied *b to *a
ptr_copy(body, a, b) == [body EXCEPT ![a] = body[b]]

\* std::ptr::swap(a, b) on the literal buffer
ptr_swap(body, a, b) == [body EXCEPT ![a] = body[b], ![b] = body[a]]

\* swap_remove, had it left the list as it was
swap_remove_none(s, k) == s

\* Vec::swap_remove(k) (k counted from 0)
swap_remove(s, k) == SubSeq([s EXCEPT ![k + 1] = s[Len(s)]], 1, Len(s) - 1)

\* the watcher list the loop walks
cur_list == watchers[get_loc(lit, n)]

\* the clause the iteration takes
cur_clause == cur_list[i + 1]

\* the buffer after the swap that brings negate(lit) to the first boundary
normalized(body, clause, l) ==
    IF body[clause[2]] = negative(l) THEN ptr_swap(body, clause[1], clause[2]) ELSE body

\* the address the inner while loop stops at: the first interior literal that is
\* not false, or clause.1 when there is none
RECURSIVE scan(_, _, _, _)
scan(body, p, clause, oob) ==
    IF p < clause[2]
    THEN IF eval_unchecked(body[p], oob) # Some(FALSE) THEN p
         ELSE scan(body, p + 1, clause, oob)
    ELSE clause[2]

\* moved_slot, had the clause been pushed back onto the list the loop walks
moved_slot_back(body, p, nn) == get_loc(lit, nn)

\* the slot the moved clause is pushed to: the literal at p after the swap
moved_slot(body, p, nn) == get_loc(body[p], nn)

\* propagate_once(l) is entered
Call(l) ==
    /\ pc = "idle"
    /\ l \in Lits(n)
    /\ Value(l) = Some(TRUE)
    /\ pc' = "loop"
    /\ lit' = l
    /\ i' = 0
    /\ later_assigns' = <<>>
    /\ result' = NoResult
    /\ at_entry' = watchers[get_loc(l, n)]
    /\ seen' = <<>>
    /\ UNCHANGED <<args, solver, aux>>

\* the list is exhausted: break, and return Ok(later_assigns)
LoopExit ==
    /\ pc = "loop"
    /\ i >= Len(cur_list)
    /\ pc' = "idle"
    /\ result' = [kind |-> "Ok", lit |-> lit, assigns |-> later_assigns, clause |-> <<>>]
    /\ lit' = 0
    /\ i' = 0
    /\ later_assigns' = <<>>
    /\ at_entry' = <<>>
    /\ seen' = <<>>
    /\ UNCHANGED <<args, solver, aux>>

\* the debug_assert after the normalisation fails (a build with debug assertions)
AssertFail ==
    /\ pc = "loop"
    /\ i < Len(cur_list)
    /\ LET body == normalized(clause_body, cur_clause, lit)
       IN  /\ negative(body[cur_clause[1]]) # lit
           /\ clause_body' = body
    /\ pc' = "panicked"
    /\ seen' = Append(seen, cur_clause)
    /\ UNCHANGED <<args, n, clauses, assign, level, suggest, levels, watchers, frame, result>>
    /\ UNCHANGED <<aux, at_entry>>

\* StepSatisfied, had the satisfied clause been dropped from the list it is in
StepSatisfiedDrop(oob) ==
    /\ pc = "loop"
    /\ i < Len(cur_list)
    /\ LET body == normalized(clause_body, cur_clause, lit)
       IN  /\ eval_unchecked(body[cur_clause[2]], oob) = Some(TRUE)
           /\ clause_body' = body
    /\ watchers' = [watchers EXCEPT ![get_loc(lit, n)] = swap_remove(@, i)]
    /\ seen' = Append(seen, cur_clause)
    /\ UNCHANGED <<args, n, clauses, assign, level, suggest, levels, pc, frame, result>>
    /\ UNCHANGED <<aux, at_entry>>

\* the second boundary is true: the clause is satisfied
StepSatisfied(oob) ==
    /\ pc = "loop"
    /\ i < Len(cur_list)
    /\ LET body == normalized(clause_body, cur_clause, lit)
       IN  /\ eval_unchecked(body[cur_clause[2]], oob) = Some(TRUE)
           /\ clause_body' = body
    /\ i' = i + 1
    /\ seen' = Append(seen, cur_clause)
    /\ UNCHANGED <<aux, at_entry>>
    /\ UNCHANGED <<args, n, clauses, assign, level, suggest, levels, watchers, pc, lit,
                   later_assigns, result>>

\* an interior literal is not false: the clause moves to another watcher list
StepMove(oob) ==
    /\ pc = "loop"
    /\ i < Len(cur_list)
    /\ LET clause == cur_clause
           body == normalized(clause_body, clause, lit)
           p == scan(body, clause[1] + 1, clause, oob)
           body2 == ptr_swap(body, p, clause[2])
           w1 == [watchers EXCEPT ![get_loc(lit, n)] = swap_remove(@, i)]
           w2 == push_watcher(w1, moved_slot(body2, p, n), clause)
       IN  /\ eval_unchecked(body[clause[2]], oob) # Some(TRUE)
           /\ p < clause[2]
           /\ clause_body' = body2
           /\ watchers' = w2
    /\ seen' = Append(seen, cur_clause)
    /\ UNCHANGED <<args, n, clauses, assign, level, suggest, levels, pc, frame, result>>
    /\ UNCHANGED <<aux, at_entry>>

\* every literal but the first boundary is false: return Conflict(clause)
StepConflict(oob) ==
    /\ pc = "loop"
    /\ i < Len(cur_list)
    /\ LET clause == cur_clause
           body == normalized(clause_body, clause, lit)
       IN  /\ scan(body, clause[1] + 1, clause, oob) = clause[2]
           /\ eval_unchecked(body[clause[2]], oob) = Some(FALSE)
           /\ clause_body' = body
           /\ result' = [kind |-> "Conflict", lit |-> lit, assigns |-> <<>>, clause |-> clause]
    /\ pc' = "idle"
    /\ lit' = 0
    /\ i' = 0
    /\ later_assigns' = <<>>
    /\ at_entry' = <<>>
    /\ seen' = <<>>
    /\ UNCHANGED <<args, n, clauses, assign, level, suggest, levels, watchers>>
    /\ UNCHANGED aux

\* StepUnit, had it committed the consequence to assign and levels itself
StepUnitCommit(oob) ==
    /\ pc = "loop"
    /\ i < Len(cur_list)
    /\ LET clause == cur_clause
           body == normalized(clause_body, clause, lit)
           forced == body[clause[2]]
       IN  /\ scan(body, clause[1] + 1, clause, oob) = clause[2]
           /\ eval_unchecked(forced, oob) = None
           /\ clause_body' = body
           /\ later_assigns' = Append(later_assigns, <<forced, clause>>)
           /\ assign' = [v \in DOMAIN assign |->
                            IF v = var(forced) THEN Some(as_bool(forced)) ELSE assign[v]]
           /\ levels' = [v \in DOMAIN levels |->
                            IF v = var(forced) THEN level ELSE levels[v]]
    /\ i' = i + 1
    /\ seen' = Append(seen, cur_clause)
    /\ UNCHANGED <<args, n, clauses, level, suggest, watchers, pc, lit, result>>
    /\ UNCHANGED <<aux, at_entry>>

\* the second boundary is the only literal left: it is a consequence
StepUnit(oob) ==
    /\ pc = "loop"
    /\ i < Len(cur_list)
    /\ LET clause == cur_clause
           body == normalized(clause_body, clause, lit)
       IN  /\ scan(body, clause[1] + 1, clause, oob) = clause[2]
           /\ eval_unchecked(body[clause[2]], oob) = None
           /\ clause_body' = body
           /\ later_assigns' = Append(later_assigns, <<body[clause[2]], clause>>)
    /\ i' = i + 1
    /\ seen' = Append(seen, cur_clause)
    /\ UNCHANGED <<aux, at_entry>>
    /\ UNCHANGED <<args, n, clauses, assign, level, suggest, levels, watchers, pc, lit,
                   result>>

\* what the reads of one iteration can find outside assign: any value when the
\* clause taken holds a literal without a cell, and nothing to find otherwise
OobReads ==
    IF /\ pc = "loop"
       /\ i < Len(cur_list)
       /\ \E a \in cur_clause[1]..cur_clause[2] : var(clause_body[a]) \notin DOMAIN assign
    THEN OptBool
    ELSE {None}

Propagate ==
    \/ \E l \in Lits(NumVars) : Call(l)
    \/ LoopExit
    \/ AssertFail
    \/ \E oob \in OobReads : StepSatisfied(oob)
    \/ \E oob \in OobReads : StepMove(oob)
    \/ \E oob \in OobReads : StepConflict(oob)
    \/ \E oob \in OobReads : StepUnit(oob)

Next ==
    \/ \E v \in 1..NumVars, b \in OptBool : DriverAssign(v, b)
    \/ Propagate

Spec == Init /\ [][Next]_vars

NextFrame ==
    \/ \E v \in 1..NumVars, b \in OptBool : DriverAssign(v, b)
    \/ \E k \in 0..MaxLevel : DriverLevel(k)
    \/ \E v \in 1..NumVars, b \in BOOLEAN : DriverSuggest(v, b)
    \/ Propagate

SpecFrame == InitFrame /\ [][NextFrame]_vars

(***************************************************************************)
(* Relocation of the Solver value (the test sat_solver_struct_test): two   *)
(* Solvers are built, each in its place, and std::mem::swap exchanges the  *)
(* two values.  The literal buffer of a Solver is a boxed slice: memory    *)
(* has one region per buffer, region 0 for the buffer of the Solver built  *)
(* in place 0 and region 1 for the other, and the addresses held by        *)
(* clauses and watchers of the Solver of the state are those of region 0.  *)
(***************************************************************************)
\* the input of the test: Solver::new(3, [[1, -2], [-1, 2, 3]])
TestInput == <<3, <<<<1, -2>>, <<-1, 2, 3>>>>>>

\* the buffers of the other Solver: that of the test, Solver::new(2, []), and one
\* that holds a clause
OtherBodies == {boxed(v_clauses(<<>>)), boxed(v_clauses(<<<<-1, 2>>>>))}

SwapInputs == FrameInputs \cup {TestInput}

InitSwap ==
    /\ SolverOn(SwapInputs)
    /\ place = 0
    /\ other_body \in OtherBodies
    /\ queue = <<>>
    /\ at_entry = <<>>
    /\ seen = <<>>

\* the region a buffer lies in, had it been stored inside the Solver value: the
\* region of the place the value lies in now
buffer_region_inline(built_at, now_at) == now_at

\* the region the buffer of a Solver lies in, for the Solver built in the place
\* built_at and lying in now_at: Box::into_raw(v_clauses.into_boxed_slice()) is a
\* heap allocation, and the struct holds its address
buffer_region(built_at, now_at) == built_at

\* *p for an address p of region 0: the literal of the buffer that lies there,
\* and 0 where no buffer reaches
Deref(p) ==
    IF buffer_region(0, place) = 0 THEN clause_body[p]
    ELSE IF buffer_region(1, 1 - place) = 0 /\ p \in DOMAIN other_body THEN other_body[p]
    ELSE 0

\* std::mem::swap(&mut ss, &mut ss2): the two values change places, field by field
Relocate ==
    /\ pc = "idle"
    /\ place' = 1 - place
    /\ result' = NoResult
    /\ UNCHANGED <<args, solver, pc, frame, other_body, queue, hist>>

NextSwap ==
    \/ Relocate
    \/ \E v \in 1..NumVars, b \in OptBool : DriverAssign(v, b)
    \/ Propagate

SpecSwap == InitSwap /\ [][NextSwap]_vars

(***************************************************************************)
(* A driver that propagates to the end: it decides a literal, calls        *)
(* propagate_once on it, commits every literal the call returns as true    *)
(* and calls propagate_once on each of those in turn.  queue holds the     *)
(* literals it assigned and has not finished with; its head is the one it  *)
(* calls on.  After a conflict it does nothing more.  The inputs are those *)
(* whose variables all have a cell in assign, so that it can commit every  *)
(* literal a call returns.                                                 *)
(***************************************************************************)
DriverInputs ==
    {inp \in Inputs : \A k \in 1..Len(inp[2]) : \A j \in 1..Len(inp[2][k]) :
                          var(inp[2][k][j]) < inp[1]}

InitDriver == InitOn(DriverInputs)

\* the literals of the pairs, each once, in the order they were returned
RECURSIVE Forced(_)
Forced(pairs) ==
    IF pairs = <<>> THEN <<>>
    ELSE LET before == Forced(SubSeq(pairs, 1, Len(pairs) - 1))
             u == pairs[Len(pairs)][1]
         IN  IF u \in Range(before) THEN before ELSE Append(before, u)

\* two of the returned literals are each other's negation
Clash(pairs) == \E j1, j2 \in 1..Len(pairs) : pairs[j1][1] = negative(pairs[j2][1])

DriverDecide(l) ==
    /\ pc = "idle"
    /\ queue = <<>>
    /\ result.kind # "Conflict"
    /\ var(l) \in Decidable
    /\ assign[var(l)] = None
    /\ assign' = [assign EXCEPT ![var(l)] = Some(as_bool(l))]
    /\ levels' = [levels EXCEPT ![var(l)] = level]
    /\ queue' = <<l>>
    /\ result' = NoResult
    /\ UNCHANGED <<args, n, clause_body, clauses, level, suggest, watchers, pc, frame>>
    /\ UNCHANGED <<place, other_body, hist>>

DriverCall ==
    /\ queue # <<>>
    /\ result.kind = "none"
    /\ Call(Head(queue))

DriverCommit ==
    /\ pc = "idle"
    /\ queue # <<>>
    /\ result.kind = "Ok"
    /\ ~Clash(result.assigns)
    /\ LET forced == Forced(result.assigns)
       IN  /\ assign' = [v \in DOMAIN assign |->
                            IF \E j \in 1..Len(forced) : var(forced[j]) = v
                            THEN Some(\E j \in 1..Len(forced) : forced[j] = v)
                            ELSE assign[v]]
           /\ levels' = [v \in DOMAIN levels |->
                            IF \E j \in 1..Len(forced) : var(forced[j]) = v
                            THEN level ELSE levels[v]]
           /\ queue' = Tail(queue) \o forced
    /\ result' = NoResult
    /\ UNCHANGED <<args, n, clause_body, clauses, level, suggest, watchers, pc, frame>>
    /\ UNCHANGED <<place, other_body, hist>>

\* the call returned a literal and its negation: the driver has a conflict
DriverClash ==
    /\ pc = "idle"
    /\ queue # <<>>
    /\ result.kind = "Ok"
    /\ Clash(result.assigns)
    /\ result' = [kind |-> "Conflict", lit |-> result.lit, assigns |-> <<>>,
                  clause |-> <<>>]
    /\ UNCHANGED <<args, solver, pc, frame, aux, hist>>

NextDriver ==
    \/ \E l \in Lits(NumVars) : DriverDecide(l)
    \/ DriverCall
    \/ DriverCommit
    \/ DriverClash
    \/ LoopExit
    \/ AssertFail
    \/ \E oob \in OobReads : StepSatisfied(oob)
    \/ \E oob \in OobReads : StepMove(oob)
    \/ \E oob \in OobReads : StepConflict(oob)
    \/ \E oob \in OobReads : StepUnit(oob)

SpecDriver == InitDriver /\ [][NextDriver]_vars

(***************************************************************************)
(* What the claims speak of.                                               *)
(***************************************************************************)
\* the literals of the clause c as it is ordered now
ClauseLits(c) == {clause_body[a] : a \in c[1]..c[2]}

\* the two boundary literals of the clause c
FirstLit(c) == clause_body[c[1]]
LastLit(c) == clause_body[c[2]]

\* how often the clause c is registered in the watcher list of the slot s
Registered(c, s) == Cardinality({k \in 1..Len(watchers[s]) : watchers[s][k] = c})

\* a Solver exists and no call has panicked
Alive == pc \in {"idle", "loop"}

\* C1: between calls, every clause is registered in exactly two watcher lists, the
\* ones at slot(negate(first boundary)) and slot(negate(last boundary)).
C1_WatchersFollowBoundaries ==
    pc = "idle" =>
        \A k \in 1..Len(clauses) : \A s \in DOMAIN watchers :
            Registered(clauses[k], s) =
                IF s \in {get_loc(negative(FirstLit(clauses[k])), n),
                          get_loc(negative(LastLit(clauses[k])), n)}
                THEN 1 ELSE 0

\* C2: a returned consequence list holds (u, c) for every clause c that contains
\* negate(lit) and has u as its only unassigned literal, all others being false.
C2_EveryForcedLiteralReported ==
    result.kind = "Ok" =>
        \A k \in 1..Len(clauses) : \A u \in ClauseLits(clauses[k]) :
            (/\ negative(result.lit) \in ClauseLits(clauses[k])
             /\ Value(u) = None
             /\ \A x \in ClauseLits(clauses[k]) \ {u} : Value(x) = Some(FALSE))
            => \E j \in 1..Len(result.assigns) : result.assigns[j] = <<u, clauses[k]>>

\* C3: every literal of a clause returned as the conflict is false under the
\* current assignment.
C3_ConflictClauseAllFalse ==
    result.kind = "Conflict" =>
        \A x \in ClauseLits(result.clause) : Value(x) = Some(FALSE)

\* C4: for every pair (l, c) of a returned consequence list, l is the second
\* boundary of c, l is unassigned and every other literal of c is false.
C4_ConsequenceIsForced ==
    result.kind = "Ok" =>
        \A j \in 1..Len(result.assigns) :
            LET l == result.assigns[j][1]
                c == result.assigns[j][2]
            IN  /\ l = LastLit(c)
                /\ Value(l) = None
                /\ \A a \in c[1]..(c[2] - 1) : Value(clause_body[a]) = Some(FALSE)

\* C7: for every variable v of 1..n and both polarities, eval returns true exactly
\* when v is assigned the polarity of the literal, false exactly when v is assigned
\* the opposite polarity and unassigned exactly when v is unassigned, whatever
\* else memory holds.
C7_EvalMatchesAssignment ==
    Alive =>
        \A l \in Lits(n) : \A oob \in OptBool :
            /\ eval_unchecked(l, oob) = Some(TRUE) <=> VarAssign(var(l)) = Some(as_bool(l))
            /\ eval_unchecked(l, oob) = Some(FALSE) <=> VarAssign(var(l)) = Some(~as_bool(l))
            /\ eval_unchecked(l, oob) = None <=> VarAssign(var(l)) = None

\* C8: a call does not return a consequence list when some clause with negate(lit)
\* as a boundary literal has every literal false.
C8_FalsifiedWatchedClauseIsConflict ==
    result.kind = "Ok" =>
        ~ \E k \in 1..Len(clauses) :
              /\ negative(result.lit) \in {FirstLit(clauses[k]), LastLit(clauses[k])}
              /\ \A x \in ClauseLits(clauses[k]) : Value(x) = Some(FALSE)

(***************************************************************************)
(* Claims about Solver::new, checked under SpecNew.                        *)
(***************************************************************************)
\* an input that Solver::new is to reject
BadInput(nn, cs) ==
    \E k \in 1..Len(cs) :
        \/ Len(cs[k]) < 2
        \/ \E j \in 1..Len(cs[k]) : cs[k][j] = 0
        \/ \E j \in 1..Len(cs[k]) : abs(cs[k][j]) > nn
        \/ \E j1, j2 \in 1..Len(cs[k]) : j1 # j2 /\ abs(cs[k][j1]) = abs(cs[k][j2])

\* the solver of the state holds all of the input
FullyBuilt ==
    /\ n = arg_n
    /\ Len(clauses) = Len(arg_clauses)
    /\ DOMAIN clause_body = 0..(SumLen(arg_clauses) - 1)
    /\ \A k \in 1..Len(clauses) :
          /\ clauses[k][2] - clauses[k][1] + 1 = Len(arg_clauses[k])
          /\ \A j \in 1..Len(arg_clauses[k]) :
                clause_body[clauses[k][1] + j - 1] = arg_clauses[k][j]
    /\ DOMAIN assign = 0..(n - 1)
    /\ DOMAIN suggest = 0..(n - 1)
    /\ DOMAIN levels = 0..(n - 1)
    /\ DOMAIN watchers = 0..(2 * n)

\* C5: Solver::new returns no solver exactly when some clause is shorter than 2,
\* holds a zero, a literal of magnitude above n or two literals of one variable;
\* otherwise it returns a fully built solver, and nothing is built on a rejection.
C5_NewRejectsExactlyBadInputs ==
    pc # "start" =>
        /\ pc = "none" <=> BadInput(arg_n, arg_clauses)
        /\ pc = "none" =>
              <<n, clause_body, clauses, assign, suggest, levels, watchers>> =
              <<NoSolver.n, NoSolver.clause_body, NoSolver.clauses, NoSolver.assign,
                NoSolver.suggest, NoSolver.levels, NoSolver.watchers>>
        /\ pc = "idle" => FullyBuilt

\* an input is rejected for nothing but a variable that occurs twice in a clause
C5_Witness ==
    /\ pc = "none"
    /\ Len(arg_clauses) >= 1
    /\ \A k \in 1..Len(arg_clauses) : clause_ok_nodup(arg_n, arg_clauses[k])

\* C6: right after construction every clause occurs once in the watcher list of
\* slot(negate(first literal)), once in that of slot(negate(last literal)) and in
\* no other list, and every variable is unassigned.
C6_FreshSolverWatchesBoundaries ==
    pc = "idle" =>
        /\ \A k \in 1..Len(arg_clauses) : \A s \in DOMAIN watchers :
              Registered(clauses[k], s) =
                  IF s \in {arg_n - arg_clauses[k][1],
                            arg_n - arg_clauses[k][Len(arg_clauses[k])]}
                  THEN 1 ELSE 0
        /\ \A v \in 1..arg_n : VarAssign(v) = None
        /\ \A idx \in DOMAIN assign : assign[idx] = None

\* a solver is built from two clauses that share a watcher list
C6_Witness ==
    /\ pc = "idle"
    /\ Len(clauses) = 2
    /\ \E s \in DOMAIN watchers : Len(watchers[s]) = 2

(***************************************************************************)
(* Claims about the steps of propagate_once.                               *)
(***************************************************************************)
\* the clause the iteration takes has negate(lit) as one boundary and a true
\* literal as the other
TakesSatisfied ==
    /\ pc = "loop"
    /\ i < Len(cur_list)
    /\ \/ FirstLit(cur_clause) = negative(lit) /\ Value(LastLit(cur_clause)) = Some(TRUE)
       \/ LastLit(cur_clause) = negative(lit) /\ Value(FirstLit(cur_clause)) = Some(TRUE)

\* C9: a clause whose other watched literal is true stays where it is in slot(lit)'s
\* list and adds no pair; its two watched literals stay the same two, in either
\* order, and its interior literals are untouched.
C9_SatisfiedClauseStays ==
    [][TakesSatisfied =>
          LET c == cur_clause
          IN  /\ pc' = "loop"
              /\ watchers' = watchers
              /\ later_assigns' = later_assigns
              /\ result' = result
              /\ {clause_body'[c[1]], clause_body'[c[2]]} = {FirstLit(c), LastLit(c)}
              /\ \A a \in (c[1] + 1)..(c[2] - 1) : clause_body'[a] = clause_body[a]
              /\ DOMAIN clause_body' = DOMAIN clause_body
              /\ \A a \in DOMAIN clause_body \ (c[1]..c[2]) :
                    clause_body'[a] = clause_body[a]]_vars

\* a clause with an interior was passed over as satisfied after its boundaries
\* were swapped
C9_Witness ==
    /\ pc = "loop"
    /\ i >= 1
    /\ LET c == cur_list[i]
       IN  /\ c[2] - c[1] >= 2
           /\ FirstLit(c) = negative(lit)
           /\ Value(LastLit(c)) = Some(TRUE)
           /\ v_clauses(arg_clauses)[c[2] + 1] = negative(lit)

\* C10: no step of propagate_once changes assign, level, levels or suggest; it
\* changes only the order of the literals inside clauses and the watcher lists.
C10_PropagateWritesNoAssignment ==
    [][(pc = "loop" \/ pc' = "loop") =>
          /\ assign' = assign
          /\ level' = level
          /\ levels' = levels
          /\ suggest' = suggest
          /\ n' = n
          /\ clauses' = clauses
          /\ DOMAIN clause_body' = DOMAIN clause_body
          /\ DOMAIN watchers' = DOMAIN watchers
          /\ \A k \in 1..Len(clauses) :
                {clause_body'[a] : a \in clauses[k][1]..clauses[k][2]} =
                ClauseLits(clauses[k])]_vars

\* a call has returned a consequence on a solver whose driver had raised the level
\* and set a suggestion, after an earlier call had moved the clause
C10_Witness ==
    /\ result.kind = "Ok"
    /\ result.assigns # <<>>
    /\ level = 1
    /\ \E v \in DOMAIN levels : levels[v] = 1
    /\ \E v \in DOMAIN suggest : suggest[v]
    /\ watchers # new_unchecked(arg_n, arg_clauses).watchers

(***************************************************************************)
(* Claims about relocation, checked under SpecSwap.                        *)
(***************************************************************************)
\* the literals the two addresses of a ClausePtr refer to
Pointees(c) == <<Deref(c[1]), Deref(c[2])>>

\* C11: a relocation of the Solver leaves the spans and the watcher lists as they
\* were, and every span and every watcher-list entry refers to the same literals
\* as before: the first literal of each clause is the one it was.
C11_RelocationKeepsViews ==
    [][place' # place =>
          /\ clauses' = clauses
          /\ watchers' = watchers
          /\ \A k \in 1..Len(clauses) : Pointees(clauses[k])' = Pointees(clauses[k])
          /\ \A s \in DOMAIN watchers : \A j \in 1..Len(watchers[s]) :
                Pointees(watchers[s][j])' = Pointees(watchers[s][j])
          /\ \A k \in 1..Len(clauses) : Deref(clauses[k][1])' = FirstLit(clauses[k])]_vars

\* the Solver of the test lies in the other place, where a Solver with a clause
\* of its own was, and the first literals read 1 and -1 as the test expects
C11_Witness ==
    /\ place = 1
    /\ <<arg_n, arg_clauses>> = TestInput
    /\ other_body # <<>>
    /\ Deref(clauses[1][1]) = 1
    /\ Deref(clauses[2][1]) = -1

(***************************************************************************)
(* Claims about the driver that propagates to the end, under SpecDriver.   *)
(***************************************************************************)
\* the driver has propagated everything it assigned, and no call returned a
\* conflict
Settled ==
    /\ pc = "idle"
    /\ queue = <<>>
    /\ result.kind = "none"

\* C12: when the driver has propagated every literal it assigned and no call
\* returned a conflict, every clause has a true boundary literal or two
\* unassigned boundary literals.
C12_SettledClausesAreWatched ==
    Settled =>
        \A k \in 1..Len(clauses) :
            \/ Value(FirstLit(clauses[k])) = Some(TRUE)
            \/ Value(LastLit(clauses[k])) = Some(TRUE)
            \/ Value(FirstLit(clauses[k])) = None /\ Value(LastLit(clauses[k])) = None

(***************************************************************************)
(* Claims about the move, the indexes and the assertion, under Spec.       *)
(***************************************************************************)
\* C13: a step that takes a clause out of slot(lit)'s list has brought an interior
\* literal x to the second boundary, has removed the clause from that list by a
\* swap-remove at the position i, and has added it to the list at slot(negate(x))
\* and to no other.
C13_MoveRegistersNewBoundary ==
    [][(pc = "loop" /\ watchers' # watchers) =>
          LET c == cur_clause
              x == clause_body'[c[2]]
              removed == [watchers EXCEPT ![get_loc(lit, n)] = swap_remove(@, i)]
          IN  /\ \E a \in (c[1] + 1)..(c[2] - 1) : clause_body[a] = x
              /\ watchers' = push_watcher(removed, get_loc(negative(x), n), c)]_vars

\* C14: for every literal of the variables 1..n, the index eval uses into assign
\* and the indexes propagate_once uses into watchers, for the literal and for its
\* negation, lie inside those vectors.
C14_IndexesInsideVectors ==
    Alive =>
        \A l \in Lits(n) :
            /\ var(l) \in DOMAIN assign
            /\ get_loc(l, n) \in DOMAIN watchers
            /\ get_loc(negative(l), n) \in DOMAIN watchers

\* C15: every clause a call takes from slot(lit)'s list has negate(lit) as exactly
\* one of its two boundary literals, and the assertion after the normalisation
\* never fails.
C15_TakenClauseWatchesLit ==
    /\ pc # "panicked"
    /\ (pc = "loop" /\ i < Len(cur_list)) =>
          (FirstLit(cur_clause) = negative(lit)) # (LastLit(cur_clause) = negative(lit))

\* how often the call has taken the clause c
TimesSeen(c) == Cardinality({j \in 1..Len(seen) : seen[j] = c})

\* C16: when a call returns a consequence list, it has taken every clause that
\* was in slot(lit)'s list when it began exactly once.
C16_ResidentsTakenOnce ==
    [][(pc = "loop" /\ pc' = "idle" /\ result'.kind = "Ok") =>
          \A c \in Range(at_entry) : TimesSeen(c) = 1]_vars

(***************************************************************************)
(* Claims that hold of every call, under Spec.                             *)
(***************************************************************************)
\* C17: a step of the loop that does not end the call keeps lit and either
\* advances i in a list of the same length or keeps i in a list shorter by one;
\* slot(lit)'s list never grows during a call, so Len(list) - i goes down with
\* every iteration and the call ends.
C17_EveryIterationComesCloserToTheEnd ==
    [][(pc = "loop" /\ pc' = "loop") =>
          /\ lit' = lit
          /\ i <= Len(cur_list)
          /\ \/ i' = i + 1 /\ Len(cur_list') = Len(cur_list)
             \/ i' = i /\ Len(cur_list') = Len(cur_list) - 1]_vars

\* a call on a list of two or more entries has moved a clause out of the list
\* with i kept, and has passed over another with i advanced
C17_Witness ==
    /\ pc = "loop"
    /\ Len(at_entry) >= 2
    /\ Len(cur_list) < Len(at_entry)
    /\ i >= 1

\* how often the literal x occurs in the span of the clause c, and in a sequence
InSpan(c, x) == Cardinality({a \in c[1]..c[2] : clause_body[a] = x})
InSeq(sq, x) == Cardinality({j \in 1..Len(sq) : sq[j] = x})

\* C18: every clause keeps the span it was given at construction and holds the
\* literals of the input clause it was built from, each as often as there; the
\* buffer keeps its size.
C18_ClausesKeepSpanAndLiterals ==
    pc \in {"idle", "loop", "panicked"} =>
        /\ clauses = clause_ptrs(v_indexes(arg_clauses))
        /\ DOMAIN clause_body = 0..(SumLen(arg_clauses) - 1)
        /\ \A k \in 1..Len(clauses) :
              \A x \in ClauseLits(clauses[k]) \cup Range(arg_clauses[k]) :
                  InSpan(clauses[k], x) = InSeq(arg_clauses[k], x)

\* between calls, a clause begins with the last literal it was built with and
\* ends with one that was in its interior
C18_Witness ==
    /\ pc = "idle"
    /\ \E k \in 1..Len(clauses) :
          LET orig == arg_clauses[k]
          IN  /\ FirstLit(clauses[k]) = orig[Len(orig)]
              /\ \E j \in 2..(Len(orig) - 1) : LastLit(clauses[k]) = orig[j]

\* the entries of all watcher lists, as pairs of a slot and a position
Entries == UNION {{<<s, j>> : j \in 1..Len(watchers[s])} : s \in DOMAIN watchers}

\* how many entries of all lists together hold the clause c
TotalRegistered(c) == Cardinality({e \in Entries : watchers[e[1]][e[2]] = c})

\* C19: in every state, after a call that returned a conflict too, every clause
\* has two entries in the watcher lists, all lists taken together, and every
\* entry is a clause of the solver.
C19_TwoEntriesPerClause ==
    pc \in {"idle", "loop", "panicked"} =>
        /\ \A k \in 1..Len(clauses) : TotalRegistered(clauses[k]) = 2
        /\ \A e \in Entries : watchers[e[1]][e[2]] \in Range(clauses)

\* a call has returned a conflict on a clause that was not the last of its list
C19_Witness ==
    /\ result.kind = "Conflict"
    /\ LET list == watchers[get_loc(result.lit, n)]
       IN  \E j \in 1..(Len(list) - 1) : list[j] = result.clause

(***************************************************************************)
(* Claims about get_loc, on the solvers Solver::new builds, under SpecNew. *)
(***************************************************************************)
\* the slots of the literals of the variables 1..n lie inside watchers, differ
\* for different literals, and mirror each other for a literal and its negation
SlotsInsideDistinctMirrored ==
    /\ \A l \in Lits(n) : get_loc(l, n) \in DOMAIN watchers
    /\ \A l1, l2 \in Lits(n) : l1 # l2 => get_loc(l1, n) # get_loc(l2, n)
    /\ \A l \in Lits(n) : get_loc(negative(l), n) = 2 * n - get_loc(l, n)

\* C20: slot(lit) = n + lit is a bijection between the literals of the variables
\* 1..n and the indexes 0..2n: every slot lies inside the 2n+1 watcher lists,
\* different literals have different slots, every index of 0..2n is the slot of
\* a literal, and slot(negate(lit)) = 2n - slot(lit).
C20_SlotIsBijection ==
    pc = "idle" =>
        /\ SlotsInsideDistinctMirrored
        /\ DOMAIN watchers = 0..(2 * n)
        /\ \A s \in 0..(2 * n) : \E l \in Lits(n) : get_loc(l, n) = s

\* C20, amended: slot(lit) = n + lit maps the literals of the variables 1..n
\* one-to-one onto the indexes of 0..2n other than n; every slot lies inside the
\* 2n+1 watcher lists, and slot(negate(lit)) = 2n - slot(lit).
C20_SlotIsInjectionMissingN ==
    pc = "idle" =>
        /\ SlotsInsideDistinctMirrored
        /\ DOMAIN watchers = 0..(2 * n)
        /\ \A s \in 0..(2 * n) : (\E l \in Lits(n) : get_loc(l, n) = s) <=> s # n

\* a solver of two or more variables has been built, with a clause in the list
\* at a slot below n and in one above n
C20_Witness ==
    /\ pc = "idle"
    /\ n >= 2
    /\ \E s \in 0..(n - 1) : watchers[s] # <<>>
    /\ \E s \in (n + 1)..(2 * n) : watchers[s] # <<>>
    /\ watchers[n] = <<>>

====
